---- MODULE Spec2Model ----
(***************************************************************************)
(* A model of backend/nano_fun.py, the Gemini client of AR Designer Kit.    *)
(*                                                                          *)
(* Every function of the module builds one request, hands it to the remote  *)
(* service and reshapes the reply.  The remote service is the environment:  *)
(* each action draws the reply (or the transport failure) from a bounded    *)
(* set and then does what the function's code does with it.                 *)
(*                                                                          *)
(* Numbers of a JSON reply are fixed-point tenths (10 stands for 1.0).      *)
(***************************************************************************)
EXTENDS Integers, Sequences, FiniteSets, TLC

VARIABLES
    call,       \* the invocation being described: function, arguments, and the remote's answer
    requests,   \* the requests the invocation handed to the remote service, in order
    result,     \* how the invocation ended: a returned value or a raised failure
    chat,       \* RoomEditingSession.chat: the handle on the remote conversation
    history     \* RoomEditingSession.history: the local list of edits

vars == <<call, requests, result, chat, history>>

(***************************************************************************)
(* Bounds of the model.                                                     *)
(***************************************************************************)
MaxEntries == 2     \* longest JSON array in a reply
MaxConf == 2        \* largest confidence of a reply entry, in tenths
MaxRefs == 16       \* longest reference-image list handed to composite_with_references
MaxVariations == 7  \* num_variations ranges over -MaxVariations..MaxVariations
MaxParts == 4       \* most parts in the reply of an image model
MaxTurns == 2       \* most edit calls on one session

(***************************************************************************)
(* Models (class Models).                                                   *)
(***************************************************************************)
FLASH == "gemini-2.5-flash"
PRO == "gemini-2.5-pro"
NANO_BANANA == "gemini-2.5-flash-image"
NANO_BANANA_PRO == "gemini-3-pro-image-preview"

(***************************************************************************)
(* Python values.                                                           *)
(***************************************************************************)
None == "None"

\* A member of a contents list: a prompt string or a PIL image.
Text(s) == [t |-> "text", s |-> s, id |-> 0]
Img(n) == [t |-> "image", s |-> "", id |-> n]
NoImage == [t |-> "none", s |-> "", id |-> 0]

\* dict.get(key, default) on a dict modelled as a function on the keys it holds.
Get(d, k, default) == IF k \in DOMAIN d THEN d[k] ELSE default

\* The dict holding no key.
EmptyDict == [k \in {} |-> 0]

\* types.GenerateContentConfig with the fields nano_fun.py sets; None for a field left out.
Config(modalities, aspect, size, tools, mime, budget) ==
    [response_modalities |-> modalities, aspect_ratio |-> aspect, image_size |-> size,
     tools |-> tools, response_mime_type |-> mime, thinking_budget |-> budget]

NoBudget == -1
JsonConfig(budget) == Config(<<>>, None, None, <<>>, "application/json", budget)

Request(model, contents, config) == [model |-> model, contents |-> contents, config |-> config]

\* Failures of the transport (network, authentication, ...).
Errors == {"ConnectionError", "AuthError"}

Returned(v) == [kind |-> "return", value |-> v, error |-> None]
Raised(e) == [kind |-> "raise", value |-> <<>>, error |-> e]
NoResult == [kind |-> "none", value |-> <<>>, error |-> None]

\* What client.models.generate_content does with one request: it raises, or answers.
Transport == [ok : {TRUE}, error : {None}] \cup [ok : {FALSE}, error : Errors]

\* The caller.  An invocation runs from an idle caller to its result; the caller
\* then takes the result (Done) and is idle again.
Idle == call.fn = "none"

(***************************************************************************)
(* JSON replies.  response.text is either malformed, or the text of a       *)
(* document; json.loads raises JSONDecodeError on the first and yields the  *)
(* document on the second.                                                  *)
(***************************************************************************)
Malformed == [wellformed |-> FALSE, kind |-> "none", items |-> <<>>, obj |-> EmptyDict]
ArrayText(items) == [wellformed |-> TRUE, kind |-> "array", items |-> items, obj |-> EmptyDict]
ObjectText(obj) == [wellformed |-> TRUE, kind |-> "object", items |-> <<>>, obj |-> obj]

json_loads(text) ==
    IF text.wellformed
    THEN [ok |-> TRUE, kind |-> text.kind, items |-> text.items, obj |-> text.obj]
    ELSE [ok |-> FALSE, kind |-> "JSONDecodeError", items |-> <<>>, obj |-> EmptyDict]

\* Sequences over S no longer than n.
SeqUpTo(S, n) == UNION { [1..k -> S] : k \in 0..n }

(***************************************************************************)
(* Object recognition.                                                      *)
(***************************************************************************)
One == 10           \* the literal 1 of bbox.get("max_x", 1), in tenths

RECOGNIZE_PROMPT == Text("You are an expert architectural and interior design feature detector.")

\* BoundingBox with 0 as the fallback of all four coordinates.
BoundingBoxZero(bbox) ==
    [min_x |-> Get(bbox, "min_x", 0), min_y |-> Get(bbox, "min_y", 0),
     max_x |-> Get(bbox, "max_x", 0), max_y |-> Get(bbox, "max_y", 0)]

\* BoundingBox(min_x=bbox.get("min_x", 0), ..., max_y=bbox.get("max_y", 1))
BoundingBox(bbox) ==
    [min_x |-> Get(bbox, "min_x", 0), min_y |-> Get(bbox, "min_y", 0),
     max_x |-> Get(bbox, "max_x", One), max_y |-> Get(bbox, "max_y", One)]

\* RecognizedObject(label=obj.get("label", "unknown"), ...)
RecognizedObject(obj) ==
    [label |-> Get(obj, "label", "unknown"),
     confidence |-> Get(obj, "confidence", 0),
     bounding_box |-> BoundingBox(Get(obj, "bounding_box", EmptyDict)),
     category |-> Get(obj, "category", "other")]

\* Keeps with the comparison made strict.
KeepsStrict(obj, min_confidence) == Get(obj, "confidence", 0) > min_confidence

\* if obj.get("confidence", 0) >= min_confidence
Keeps(obj, min_confidence) == Get(obj, "confidence", 0) >= min_confidence

\* for obj in data: ... objects.append(...), from entry i on
RECURSIVE RecognizeLoop(_, _, _, _)
RecognizeLoop(data, min_confidence, i, objects) ==
    IF i > Len(data) THEN objects
    ELSE RecognizeLoop(data, min_confidence, i + 1,
            IF Keeps(data[i], min_confidence)
            THEN Append(objects, RecognizedObject(data[i]))
            ELSE objects)

\* The try block of recognize_objects on response.text.
RecognizeDecode(text, min_confidence) ==
    LET data == json_loads(text) IN
    IF ~data.ok THEN Returned(<<>>)                       \* except json.JSONDecodeError
    ELSE IF data.kind = "array"
         THEN Returned(RecognizeLoop(data.items, min_confidence, 1, <<>>))
         ELSE IF DOMAIN data.obj = {}
              THEN Returned(<<>>)                         \* iterating an empty dict
              ELSE Raised("AttributeError")               \* a key of the dict is a str: no .get

RecognizeRequest(image) == Request(FLASH, <<RECOGNIZE_PROMPT, image>>, JsonConfig(0))

(***************************************************************************)
(* Room analysis.                                                           *)
(***************************************************************************)
ANALYZE_PROMPT == Text("You are an expert interior designer and architect.")

RoomDimensions(w, l, h) == [estimated_width |-> w, estimated_length |-> l, estimated_height |-> h]

RoomAnalysis(room_type, dimensions, lighting, styles, features) ==
    [room_type |-> room_type, dimensions |-> dimensions, lighting_suggestions |-> lighting,
     style_recommendations |-> styles, detected_features |-> features]

\* analyze_room without its except clause: the decode failure reaches the caller.
AnalyzeUncaught == Raised("JSONDecodeError")

\* except json.JSONDecodeError: return RoomAnalysis(room_type="unknown", ...)
AnalyzeOnDecodeError ==
    Returned(RoomAnalysis("unknown", RoomDimensions(0, 0, 0), <<>>, <<>>, <<>>))

\* The try block of analyze_room on response.text.
AnalyzeDecode(text) ==
    LET data == json_loads(text) IN
    IF ~data.ok THEN AnalyzeOnDecodeError
    ELSE IF data.kind = "array" THEN Raised("AttributeError")     \* a list has no .get
    ELSE LET dims == Get(data.obj, "dimensions", EmptyDict) IN
         Returned(RoomAnalysis(
            Get(data.obj, "room_type", "unknown"),
            RoomDimensions(Get(dims, "estimated_width", 0),
                           Get(dims, "estimated_length", 0),
                           Get(dims, "estimated_height", 0)),
            Get(data.obj, "lighting_suggestions", <<>>),
            Get(data.obj, "style_recommendations", <<>>),
            Get(data.obj, "detected_features", <<>>)))

AnalyzeRequest(image) == Request(FLASH, <<ANALYZE_PROMPT, image>>, JsonConfig(128))

(***************************************************************************)
(* Floor plans.                                                             *)
(***************************************************************************)
FLOOR_PLAN_PROMPT == Text("You are an expert architect analyzing a room image to generate a 2D floor plan.")

FloorPlan(walls, doors, windows, dimensions) ==
    [walls |-> walls, doors |-> doors, windows |-> windows, dimensions |-> dimensions]

\* {"width": 0, "length": 0}
ZeroDimensions == [k \in {"width", "length"} |-> 0]

\* FloorPlanFromDict falling back to the whole default plan when any key is missing.
FloorPlanAllOrNothing(data) ==
    IF {"walls", "doors", "windows", "dimensions"} \subseteq DOMAIN data
    THEN FloorPlan(data["walls"], data["doors"], data["windows"], data["dimensions"])
    ELSE FloorPlan(<<>>, <<>>, <<>>, ZeroDimensions)

\* FloorPlan(walls=data.get("walls", []), ..., dimensions=data.get("dimensions", {...}))
FloorPlanFromDict(data) ==
    FloorPlan(Get(data, "walls", <<>>), Get(data, "doors", <<>>), Get(data, "windows", <<>>),
              Get(data, "dimensions", ZeroDimensions))

\* The try block of generate_floor_plan on response.text.
FloorPlanDecode(text) ==
    LET data == json_loads(text) IN
    IF ~data.ok THEN Returned(FloorPlan(<<>>, <<>>, <<>>, ZeroDimensions))
    ELSE IF data.kind = "array" THEN Raised("AttributeError")
    ELSE Returned(FloorPlanFromDict(data.obj))

FloorPlanRequest(image) == Request(PRO, <<image, FLOOR_PLAN_PROMPT>>, JsonConfig(256))

(***************************************************************************)
(* Product recommendations.                                                 *)
(***************************************************************************)
PRODUCT_PROMPT == Text("Based on this room analysis, recommend specific furniture and decor products.")

ProductRecommendation(item) ==
    [name |-> Get(item, "name", ""), brand |-> Get(item, "brand", ""),
     price_range |-> Get(item, "price_range", ""), retailer |-> Get(item, "retailer", ""),
     fit_rationale |-> Get(item, "fit_rationale", ""), search_query |-> Get(item, "search_query", "")]

\* The try block of get_product_recommendations on response.text.
ProductDecode(text) ==
    LET data == json_loads(text) IN
    IF ~data.ok THEN Returned(<<>>)
    ELSE IF data.kind = "array"
         THEN Returned([i \in 1..Len(data.items) |-> ProductRecommendation(data.items[i])])
         ELSE IF DOMAIN data.obj = {} THEN Returned(<<>>) ELSE Raised("AttributeError")

ProductRequest ==
    Request(NANO_BANANA_PRO, <<PRODUCT_PROMPT>>,
            Config(<<"TEXT">>, None, None, <<"google_search">>, "application/json", NoBudget))

(***************************************************************************)
(* The replies the remote service is taken to give to the JSON functions.   *)
(***************************************************************************)
Restrict(f, ks) == [k \in ks |-> f[k]]

FullBox == [min_x |-> 2, min_y |-> 3, max_x |-> 7, max_y |-> 8]
Boxes == {FullBox, EmptyDict, Restrict(FullBox, {"min_x", "min_y"}), Restrict(FullBox, {"max_x"})}

ObjectKeys == {"label", "confidence", "bounding_box", "category"}
FullEntry(c, box) == [label |-> "sofa", confidence |-> c, bounding_box |-> box, category |-> "furniture"]

\* Entries of a recognize_objects reply: every confidence, every box, every single key left out.
ObjectEntries ==
    { FullEntry(c, box) : c \in 0..MaxConf, box \in Boxes }
      \cup { Restrict(FullEntry(c, FullBox), ObjectKeys \ {k}) : c \in 0..MaxConf, k \in ObjectKeys }

Thresholds == -1..(MaxConf + 1)

RecognizeTexts ==
    {Malformed, ObjectText(EmptyDict), ObjectText([label |-> "sofa"])}
      \cup { ArrayText(items) : items \in SeqUpTo(ObjectEntries, MaxEntries) }

FullRoomDims == [estimated_width |-> 40, estimated_length |-> 50, estimated_height |-> 25]
RoomDims == {FullRoomDims, EmptyDict, Restrict(FullRoomDims, {"estimated_width"})}
RoomKeys == {"room_type", "dimensions", "lighting_suggestions", "style_recommendations",
             "detected_features"}
FullRoom(dims) ==
    [room_type |-> "bedroom", dimensions |-> dims, lighting_suggestions |-> <<"add a lamp">>,
     style_recommendations |-> <<"modern", "rustic">>, detected_features |-> <<"bay window">>]

AnalyzeTexts ==
    {Malformed, ArrayText(<<>>)}
      \cup { ObjectText(Restrict(FullRoom(dims), ks)) : dims \in RoomDims, ks \in SUBSET RoomKeys }

FullPlanDims == [width |-> 50, length |-> 40]
PlanDims == {FullPlanDims, EmptyDict, Restrict(FullPlanDims, {"width"})}
PlanKeys == {"walls", "doors", "windows", "dimensions"}
FullPlan(dims) ==
    [walls |-> <<"wall 1", "wall 2">>, doors |-> <<"door 1">>, windows |-> <<"window 1">>,
     dimensions |-> dims]

FloorPlanTexts ==
    {Malformed, ArrayText(<<>>)}
      \cup { ObjectText(Restrict(FullPlan(dims), ks)) : dims \in PlanDims, ks \in SUBSET PlanKeys }

ProductKeys == {"name", "brand", "price_range", "retailer", "fit_rationale", "search_query"}
FullProduct ==
    [name |-> "Oslo sofa", brand |-> "Nord", price_range |-> "$500 - $900", retailer |-> "Store",
     fit_rationale |-> "fits the room", search_query |-> "nord oslo sofa"]
ProductEntries ==
    {FullProduct, EmptyDict} \cup { Restrict(FullProduct, ProductKeys \ {k}) : k \in ProductKeys }

ProductTexts ==
    {Malformed, ObjectText(EmptyDict), ObjectText([name |-> "Oslo sofa"])}
      \cup { ArrayText(items) : items \in SeqUpTo(ProductEntries, MaxEntries) }

(***************************************************************************)
(* Replies of the image models.  response.parts is None (a reply without    *)
(* content) or a list of parts; a part carries text, or inline data, or     *)
(* neither, and may be flagged as a thought.                                *)
(***************************************************************************)
TextPart(thought, text) == [thought |-> thought, kind |-> "text", text |-> text, image |-> NoImage]
InlinePart(thought, n) == [thought |-> thought, kind |-> "inline_data", text |-> "", image |-> Img(n)]
OtherPart == [thought |-> FALSE, kind |-> "other", text |-> "", image |-> NoImage]

\* part.text is not None / part.inline_data is not None
HasText(part) == part.kind = "text"
HasInlineData(part) == part.kind = "inline_data"

\* IsThought never seeing the flag.
NeverThought(part) == FALSE

\* hasattr(part, 'thought') and part.thought
IsThought(part) == part.thought

Reply(parts) == [has_parts |-> TRUE, parts |-> parts]
NoParts == [has_parts |-> FALSE, parts |-> <<>>]

\* The parts a reply is made of: answer text, thought text, images, a thought image, other.
Parts ==
    {TextPart(FALSE, "a"), TextPart(FALSE, "b"), TextPart(TRUE, "t"),
     InlinePart(FALSE, 1), InlinePart(FALSE, 2), InlinePart(TRUE, 3), OtherPart}

Replies == {NoParts} \cup { Reply(parts) : parts \in SeqUpTo(Parts, MaxParts) }

\* The loop keeping the first text and the first image it meets.
RECURSIVE WalkPartsFirst(_, _, _, _)
WalkPartsFirst(parts, i, image, description) ==
    IF i > Len(parts) THEN <<image, description>>
    ELSE LET part == parts[i] IN
         IF IsThought(part) THEN WalkPartsFirst(parts, i + 1, image, description)
         ELSE IF HasText(part)
              THEN WalkPartsFirst(parts, i + 1, image,
                                  IF description = "" THEN part.text ELSE description)
         ELSE IF HasInlineData(part)
              THEN WalkPartsFirst(parts, i + 1,
                                  IF image = NoImage THEN part.image ELSE image, description)
         ELSE WalkPartsFirst(parts, i + 1, image, description)

\* The loop of the functions that skip thoughts and keep one description:
\*   for part in response.parts:
\*       if hasattr(part, 'thought') and part.thought: continue
\*       if part.text is not None: description = part.text
\*       elif part.inline_data is not None: result_image = part.as_image()
RECURSIVE WalkParts(_, _, _, _)
WalkParts(parts, i, image, description) ==
    IF i > Len(parts) THEN <<image, description>>
    ELSE LET part == parts[i] IN
         IF IsThought(part) THEN WalkParts(parts, i + 1, image, description)
         ELSE IF HasText(part) THEN WalkParts(parts, i + 1, image, part.text)
         ELSE IF HasInlineData(part) THEN WalkParts(parts, i + 1, part.image, description)
         ELSE WalkParts(parts, i + 1, image, description)

\* result_image = None; description = ""; the loop; return result_image, description.
\* Iterating response.parts when it is None raises TypeError.
ImageAndDescription(reply) ==
    IF reply.has_parts THEN Returned(WalkParts(reply.parts, 1, NoImage, ""))
    ELSE Raised("TypeError")

\* tools=[{"google_search": {}}]
SEARCH_TOOLS == <<"google_search">>

ImageConfig(aspect_ratio, image_size) ==
    Config(<<"TEXT", "IMAGE">>, aspect_ratio, image_size, <<>>, None, NoBudget)

ImageCall(fn, prompt, images, aspect_ratio, resolution, transport, reply) ==
    [fn |-> fn, prompt |-> prompt, images |-> images, aspect_ratio |-> aspect_ratio,
     resolution |-> resolution, transport |-> transport, reply |-> reply]

\* A transport failure propagates to the caller; a reply is walked.
ImageOutcome(transport, walked) == IF transport.ok THEN walked ELSE Raised(transport.error)

\* What one generate_content call on an image model does: it raises, and there is
\* no reply, or it answers with a reply.
Answers(replies) ==
    { <<tr, reply>> : tr \in {t \in Transport : t.ok}, reply \in replies }
        \cup { <<tr, NoParts>> : tr \in {t \in Transport : ~t.ok} }

ImageAnswers == Answers(Replies)

AspectRatios == {"16:9"}
Resolutions == {"1K", "2K"}
Prompts == {Text("p"), Text("q")}

(***************************************************************************)
(* Multi-reference compositing.                                             *)
(***************************************************************************)
MaxReferenceImages == 14

\* Truncate keeping the last 14 images of the list.
TruncateToLast(reference_images) ==
    IF Len(reference_images) > MaxReferenceImages
    THEN SubSeq(reference_images, Len(reference_images) - MaxReferenceImages + 1,
                Len(reference_images))
    ELSE reference_images

\* if len(reference_images) > 14: reference_images = reference_images[:14]
Truncate(reference_images) ==
    IF Len(reference_images) > MaxReferenceImages
    THEN SubSeq(reference_images, 1, MaxReferenceImages)
    ELSE reference_images

\* contents = [prompt] + reference_images
CompositeContents(prompt, reference_images) == <<prompt>> \o Truncate(reference_images)

CompositeRequest(prompt, reference_images, aspect_ratio, resolution) ==
    Request(NANO_BANANA_PRO, CompositeContents(prompt, reference_images),
            ImageConfig(aspect_ratio, resolution))

\* The reference lists handed in: of every length, the images in rising and in falling order.
ReferenceLists ==
    UNION { {[i \in 1..n |-> Img(i)], [i \in 1..n |-> Img(n + 1 - i)]} : n \in 0..MaxRefs }

composite_with_references ==
    /\ Idle
    /\ \E prompt \in Prompts, refs \in ReferenceLists, aspect \in AspectRatios,
          resolution \in Resolutions, answer \in ImageAnswers :
        /\ call' = ImageCall("composite_with_references", prompt, refs, aspect, resolution,
                             answer[1], answer[2])
        /\ requests' = <<CompositeRequest(prompt, refs, aspect, resolution)>>
        /\ result' = ImageOutcome(answer[1], ImageAndDescription(answer[2]))
    /\ UNCHANGED <<chat, history>>

(***************************************************************************)
(* Text-to-image and image-to-image.  The model is an argument, and the     *)
(* loop over the reply has no test of the thought flag.                     *)
(***************************************************************************)
ImageModels == {NANO_BANANA, NANO_BANANA_PRO}

\*   for part in response.parts:
\*       if part.text is not None: description = part.text
\*       elif part.inline_data is not None: image = part.as_image()
RECURSIVE WalkAllParts(_, _, _, _)
WalkAllParts(parts, i, image, description) ==
    IF i > Len(parts) THEN <<image, description>>
    ELSE LET part == parts[i] IN
         IF HasText(part) THEN WalkAllParts(parts, i + 1, image, part.text)
         ELSE IF HasInlineData(part) THEN WalkAllParts(parts, i + 1, part.image, description)
         ELSE WalkAllParts(parts, i + 1, image, description)

\* image = None; description = ""; the loop; return image, description.
ImageAndDescriptionOfAll(reply) ==
    IF reply.has_parts THEN Returned(WalkAllParts(reply.parts, 1, NoImage, ""))
    ELSE Raised("TypeError")

GenerateImageRequest(prompt, aspect_ratio, model) ==
    Request(model, <<prompt>>, ImageConfig(aspect_ratio, None))

generate_image ==
    /\ Idle
    /\ \E prompt \in Prompts, aspect \in AspectRatios, model \in ImageModels,
          answer \in ImageAnswers :
        /\ call' = ImageCall("generate_image", prompt, <<>>, aspect, None,
                             answer[1], answer[2]) @@ [model |-> model]
        /\ requests' = <<GenerateImageRequest(prompt, aspect, model)>>
        /\ result' = ImageOutcome(answer[1], ImageAndDescriptionOfAll(answer[2]))
    /\ UNCHANGED <<chat, history>>

EditImageRequest(image, edit_prompt, aspect_ratio, model) ==
    Request(model, <<image, edit_prompt>>, ImageConfig(aspect_ratio, None))

edit_image ==
    /\ Idle
    /\ \E edit_prompt \in Prompts, aspect \in AspectRatios, model \in ImageModels,
          answer \in ImageAnswers :
        /\ call' = ImageCall("edit_image", edit_prompt, <<Img(1)>>, aspect, None,
                             answer[1], answer[2]) @@ [model |-> model]
        /\ requests' = <<EditImageRequest(Img(1), edit_prompt, aspect, model)>>
        /\ result' = ImageOutcome(answer[1], ImageAndDescriptionOfAll(answer[2]))
    /\ UNCHANGED <<chat, history>>

(***************************************************************************)
(* Room style, grounded and 4K generation.                                  *)
(***************************************************************************)
\* enhanced_prompt = f"""Transform this room image according to the following style:
\* {style_prompt} ..."""
EnhancedPrompt(style_prompt) ==
    Text("Transform this room image according to the following style: " \o style_prompt.s)

\* The resolution sent to whichever model is taken.
RoomStyleRequestSized(room_image, style_prompt, aspect_ratio, resolution, use_pro) ==
    Request(IF use_pro THEN NANO_BANANA_PRO ELSE NANO_BANANA,
            <<room_image, EnhancedPrompt(style_prompt)>>,
            ImageConfig(aspect_ratio, resolution))

\* model = Models.NANO_BANANA_PRO if use_pro else Models.NANO_BANANA;
\* image_size is set in the image_config only if use_pro.
RoomStyleRequest(room_image, style_prompt, aspect_ratio, resolution, use_pro) ==
    Request(IF use_pro THEN NANO_BANANA_PRO ELSE NANO_BANANA,
            <<room_image, EnhancedPrompt(style_prompt)>>,
            ImageConfig(aspect_ratio, IF use_pro THEN resolution ELSE None))

generate_room_style ==
    /\ Idle
    /\ \E style_prompt \in Prompts, aspect \in AspectRatios, resolution \in Resolutions,
          use_pro \in BOOLEAN, answer \in ImageAnswers :
        /\ call' = ImageCall("generate_room_style", style_prompt, <<Img(1)>>, aspect,
                             resolution, answer[1], answer[2]) @@ [use_pro |-> use_pro]
        /\ requests' = <<RoomStyleRequest(Img(1), style_prompt, aspect, resolution, use_pro)>>
        /\ result' = ImageOutcome(answer[1], ImageAndDescription(answer[2]))
    /\ UNCHANGED <<chat, history>>

\* response.candidates[0].grounding_metadata: absent, or holding web_search_queries,
\* which is None or a list.
NoMetadata == [present |-> FALSE, has_queries |-> FALSE, queries |-> <<>>]
Metadata(has_queries, queries) ==
    [present |-> TRUE, has_queries |-> has_queries, queries |-> queries]
GroundingMetadata == {NoMetadata, Metadata(FALSE, <<>>), Metadata(TRUE, <<"sofa">>)}

\* search_queries = []; if ... grounding_metadata: search_queries = meta.web_search_queries or []
SearchQueries(meta) ==
    IF meta.present /\ meta.has_queries THEN meta.queries ELSE <<>>

GroundedRequest(prompt, aspect_ratio, resolution) ==
    Request(NANO_BANANA_PRO, <<prompt>>,
            [ImageConfig(aspect_ratio, resolution) EXCEPT !.tools = SEARCH_TOOLS])

\* return result_image, description, search_queries
GroundedFromReply(reply, meta) ==
    IF reply.has_parts
    THEN Returned(WalkParts(reply.parts, 1, NoImage, "") \o <<SearchQueries(meta)>>)
    ELSE Raised("TypeError")

generate_grounded_image ==
    /\ Idle
    /\ \E prompt \in Prompts, aspect \in AspectRatios, resolution \in Resolutions,
          answer \in ImageAnswers, meta \in GroundingMetadata :
        /\ call' = ImageCall("generate_grounded_image", prompt, <<>>, aspect, resolution,
                             answer[1], answer[2]) @@ [metadata |-> meta]
        /\ requests' = <<GroundedRequest(prompt, aspect, resolution)>>
        /\ result' = ImageOutcome(answer[1], GroundedFromReply(answer[2], meta))
    /\ UNCHANGED <<chat, history>>

\* contents = [input_image, prompt] if input_image else [prompt]
Contents4K(prompt, input_image) ==
    IF input_image # NoImage THEN <<input_image, prompt>> ELSE <<prompt>>

Request4K(prompt, aspect_ratio, input_image) ==
    Request(NANO_BANANA_PRO, Contents4K(prompt, input_image), ImageConfig(aspect_ratio, "4K"))

generate_4k_image ==
    /\ Idle
    /\ \E prompt \in Prompts, aspect \in AspectRatios, input_image \in {NoImage, Img(1)},
          answer \in ImageAnswers :
        /\ call' = ImageCall("generate_4k_image", prompt, <<input_image>>, aspect, "4K",
                             answer[1], answer[2])
        /\ requests' = <<Request4K(prompt, aspect, input_image)>>
        /\ result' = ImageOutcome(answer[1], ImageAndDescription(answer[2]))
    /\ UNCHANGED <<chat, history>>

(***************************************************************************)
(* Seamless textures.                                                       *)
(***************************************************************************)
\* prompt = f"""Create a seamless tileable texture for: {material_description} ..."""
TexturePrompt(material_description) ==
    Text("Create a seamless tileable texture for: " \o material_description.s)

\* The Pro model taken for "1K" as well.
TextureUsesProFrom1K(resolution) == resolution \in {"1K", "2K", "4K"}

\* if resolution in ["2K", "4K"]:
TextureUsesPro(resolution) == resolution \in {"2K", "4K"}

\* Both branches taken in turn: the Pro request and then the basic one.
TextureRequestsBoth(material_description, resolution) ==
    <<Request(NANO_BANANA_PRO, <<TexturePrompt(material_description)>>,
              ImageConfig("1:1", resolution)),
      Request(NANO_BANANA, <<TexturePrompt(material_description)>>,
              ImageConfig("1:1", None))>>

\* The generate_content call of the branch taken.
TextureRequests(material_description, resolution) ==
    IF TextureUsesPro(resolution)
    THEN <<Request(NANO_BANANA_PRO, <<TexturePrompt(material_description)>>,
                   ImageConfig("1:1", resolution))>>
    ELSE <<Request(NANO_BANANA, <<TexturePrompt(material_description)>>,
                   ImageConfig("1:1", None))>>

\*   for part in response.parts:
\*       if hasattr(part, 'thought') and part.thought: continue
\*       if part.inline_data is not None: return part.as_image()
\*   return None
RECURSIVE FirstImage(_, _)
FirstImage(parts, i) ==
    IF i > Len(parts) THEN NoImage
    ELSE IF IsThought(parts[i]) THEN FirstImage(parts, i + 1)
    ELSE IF HasInlineData(parts[i]) THEN parts[i].image
    ELSE FirstImage(parts, i + 1)

TextureFromReply(reply) ==
    IF reply.has_parts THEN Returned(FirstImage(reply.parts, 1)) ELSE Raised("TypeError")

TextureResolutions == {"1K", "2K", "4K", "8K", ""}

generate_seamless_texture ==
    /\ Idle
    /\ \E material \in Prompts, resolution \in TextureResolutions, answer \in ImageAnswers :
        /\ call' = ImageCall("generate_seamless_texture", material, <<>>, "1:1", resolution,
                             answer[1], answer[2])
        /\ requests' = TextureRequests(material, resolution)
        /\ result' = ImageOutcome(answer[1], TextureFromReply(answer[2]))
    /\ UNCHANGED <<chat, history>>

(***************************************************************************)
(* Style variations.                                                        *)
(***************************************************************************)
STYLE_MODIFIERS ==
    << [id |-> "warm", name |-> "Warm & Cozy",
        modifier |-> "with warm earth tones, soft textures, and ambient lighting"],
       [id |-> "cool", name |-> "Cool & Modern",
        modifier |-> "with cool tones, clean lines, and minimalist aesthetic"],
       [id |-> "natural", name |-> "Natural & Organic",
        modifier |-> "with natural materials, plants, and earthy elements"],
       [id |-> "luxurious", name |-> "Luxurious & Elegant",
        modifier |-> "with premium materials, rich colors, and sophisticated details"],
       [id |-> "bright", name |-> "Bright & Airy",
        modifier |-> "with light colors, open feel, and maximum natural light"] >>

MaxPresets == 5     \* the 5 of min(num_variations, 5)

\* seq[:stop] of Python: a negative stop counts from the end of the list.
SliceTo(seq, stop) ==
    LET n == Len(seq)
        k == IF stop < 0 THEN (IF n + stop < 0 THEN 0 ELSE n + stop)
             ELSE (IF stop > n THEN n ELSE stop)
    IN SubSeq(seq, 1, k)

\* selected_modifiers = STYLE_MODIFIERS[:min(num_variations, 5)]
SelectedModifiers(num_variations) ==
    SliceTo(STYLE_MODIFIERS, IF num_variations < MaxPresets THEN num_variations ELSE MaxPresets)

\* full_prompt = f"""Transform this room with a {base_style} style, {modifier['modifier']}. ..."""
VariationPrompt(base_style, modifier) ==
    Text("Transform this room with a " \o base_style \o " style, " \o modifier.modifier \o ".")

VariationRequest(room_image, base_style, modifier, resolution) ==
    Request(NANO_BANANA_PRO, <<room_image, VariationPrompt(base_style, modifier)>>,
            ImageConfig("16:9", resolution))

StyleVariation(id, name, description, image) ==
    [id |-> id, name |-> name, description |-> description, image |-> image]

\* The body of the try block appending a variation whether or not an image was found.
VariationFromReplyAlways(variations, base_style, modifier, reply) ==
    IF ~reply.has_parts THEN [raised |-> TRUE, variations |-> variations]
    ELSE LET walked == WalkParts(reply.parts, 1, NoImage, "")
         IN [raised |-> FALSE,
             variations |->
                Append(variations,
                       StyleVariation(modifier.id, modifier.name,
                            IF walked[2] # "" THEN walked[2]
                            ELSE base_style \o " " \o modifier.modifier,
                            walked[1]))]

\* The body of the try block once the reply is there: walk the parts, and
\* append a variation if an image was found.  A reply without parts raises.
VariationFromReply(variations, base_style, modifier, reply) ==
    IF ~reply.has_parts THEN [raised |-> TRUE, variations |-> variations]
    ELSE LET walked == WalkParts(reply.parts, 1, NoImage, "")
             result_image == walked[1]
             description == walked[2]
         IN [raised |-> FALSE,
             variations |->
                IF result_image # NoImage
                THEN Append(variations,
                        StyleVariation(modifier.id, modifier.name,
                            IF description # "" THEN description
                            ELSE base_style \o " " \o modifier.modifier,
                            result_image))
                ELSE variations]

\* The loop leaving at the first failure with what it has (a break in the except clause).
RECURSIVE VariationsLoopBreaking(_, _, _, _, _)
VariationsLoopBreaking(selected, outcomes, base_style, i, st) ==
    IF i > Len(selected) THEN st
    ELSE LET sent == Append(st.requests, VariationRequest(Img(1), base_style, selected[i], "2K"))
             tried == VariationFromReply(st.variations, base_style, selected[i], outcomes[i].reply)
         IN IF ~outcomes[i].transport.ok \/ tried.raised
            THEN [requests |-> sent, variations |-> st.variations]
            ELSE VariationsLoopBreaking(selected, outcomes, base_style, i + 1,
                    [requests |-> sent, variations |-> tried.variations])

\* for modifier in selected_modifiers: try: ... except Exception as e: print(...)
\* st holds the requests sent and the variations appended so far.
RECURSIVE VariationsLoop(_, _, _, _, _)
VariationsLoop(selected, outcomes, base_style, i, st) ==
    IF i > Len(selected) THEN st
    ELSE LET sent == Append(st.requests, VariationRequest(Img(1), base_style, selected[i], "2K"))
             tried == VariationFromReply(st.variations, base_style, selected[i], outcomes[i].reply)
         IN VariationsLoop(selected, outcomes, base_style, i + 1,
                [requests |-> sent,
                 variations |-> IF ~outcomes[i].transport.ok \/ tried.raised
                                THEN st.variations          \* caught: this variation is skipped
                                ELSE tried.variations])

\* What the remote does with the request of one variation.
VariationReplies ==
    {NoParts,
     Reply(<<TextPart(FALSE, "a")>>),
     Reply(<<InlinePart(FALSE, 1)>>),
     Reply(<<InlinePart(TRUE, 3), TextPart(FALSE, "b"), InlinePart(FALSE, 2)>>)}

VariationOutcomes ==
    [transport : {[ok |-> TRUE, error |-> None]}, reply : VariationReplies]
      \cup [transport : {[ok |-> FALSE, error |-> "ConnectionError"]}, reply : {NoParts}]

NumVariations == (0 - MaxVariations)..MaxVariations

generate_style_variations ==
    /\ Idle
    /\ \E num_variations \in NumVariations :
        LET selected == SelectedModifiers(num_variations) IN
        \E outcomes \in [1..Len(selected) -> VariationOutcomes] :
            LET st == VariationsLoop(selected, outcomes, "modern", 1,
                                     [requests |-> <<>>, variations |-> <<>>])
            IN /\ call' = [fn |-> "generate_style_variations", num_variations |-> num_variations,
                           base_style |-> "modern", resolution |-> "2K", outcomes |-> outcomes]
               /\ requests' = st.requests
               /\ result' = Returned(st.variations)
    /\ UNCHANGED <<chat, history>>

(***************************************************************************)
(* The editing session.                                                     *)
(***************************************************************************)
\* config = types.GenerateContentConfig(response_modalities=["TEXT", "IMAGE"][, tools=[...]])
SessionConfig(enable_search) ==
    Config(<<"TEXT", "IMAGE">>, None, None, IF enable_search THEN SEARCH_TOOLS ELSE <<>>,
           None, NoBudget)

\* The contents the chat handle keeps of a turn that was answered: what the
\* user sent, and what the model replied (not valid when the reply has no parts).
UserContent(parts) == [role |-> "user", valid |-> TRUE, parts |-> parts]
ModelContent(reply) == [role |-> "model", valid |-> reply.has_parts, parts |-> reply.parts]

\* A chat handle that sends the base image as a first message when it is opened.
NewChatPrimed(enable_search) ==
    [created |-> TRUE, model |-> NANO_BANANA_PRO, config |-> SessionConfig(enable_search),
     sent |-> <<[parts |-> <<Img(1)>>, has_config |-> FALSE,
                 config |-> Config(<<>>, None, None, <<>>, None, NoBudget)]>>,
     record |-> <<>>]

\* self.chat = client.chats.create(model=Models.NANO_BANANA_PRO, config=config)
\* sent: the messages handed to the handle; record: the conversation it keeps.
NewChat(enable_search) ==
    [created |-> TRUE, model |-> NANO_BANANA_PRO, config |-> SessionConfig(enable_search),
     sent |-> <<>>, record |-> <<>>]

\* RoomEditingSession.__init__: the chat handle is opened, nothing is sent.
CreateSession ==
    /\ Idle
    /\ ~chat.created
    /\ \E enable_search \in BOOLEAN : chat' = NewChat(enable_search)
    /\ history' = <<>>
    /\ UNCHANGED <<call, requests, result>>

\* An optional string argument counted as given whenever it is not None.
NotNone(s) == s # None

\* The truth value of an optional string argument: None and "" are false.
Truthy(s) == s # None /\ s # ""

\* parts = [image, prompt] whether or not an image was given.
EditPartsAlways(image, prompt) == <<image, prompt>>

\* parts = []; if image is not None: parts.append(image); parts.append(prompt)
EditParts(image, prompt) == IF image # NoImage THEN <<image, prompt>> ELSE <<prompt>>

NoConfig == Config(<<>>, None, None, <<>>, None, NoBudget)

\* config = None; if aspect_ratio or resolution: config = types.GenerateContentConfig(...)
\* A message is sent with a config (has_config) or without one.
EditMessage(image, prompt, aspect_ratio, resolution) ==
    IF Truthy(aspect_ratio) \/ Truthy(resolution)
    THEN [parts |-> EditParts(image, prompt), has_config |-> TRUE,
          config |-> Config(<<"TEXT", "IMAGE">>,
                            IF Truthy(aspect_ratio) THEN aspect_ratio ELSE None,
                            IF Truthy(resolution) THEN resolution ELSE None,
                            <<>>, None, NoBudget)]
    ELSE [parts |-> EditParts(image, prompt), has_config |-> FALSE, config |-> NoConfig]

\* The loop of edit: thoughts are skipped, the texts are joined, an image is kept.
\*   if part.text is not None: text += part.text
\*   elif part.inline_data is not None: result_image = part.as_image()
RECURSIVE EditWalk(_, _, _, _)
EditWalk(parts, i, image, text) ==
    IF i > Len(parts) THEN <<image, text>>
    ELSE LET part == parts[i] IN
         IF IsThought(part) THEN EditWalk(parts, i + 1, image, text)
         ELSE IF HasText(part) THEN EditWalk(parts, i + 1, image, text \o part.text)
         ELSE IF HasInlineData(part) THEN EditWalk(parts, i + 1, part.image, text)
         ELSE EditWalk(parts, i + 1, image, text)

\* edit turning a failed send into an empty result.
EditOutcomeSwallowing(transport, reply) ==
    IF ~transport.ok THEN Returned(<<NoImage, "">>)
    ELSE IF ~reply.has_parts THEN Raised("TypeError")
    ELSE Returned(EditWalk(reply.parts, 1, NoImage, ""))

\* response = self.chat.send_message(...): a failure of the send propagates;
\* then the loop over response.parts, which raises TypeError when parts is None.
EditOutcome(transport, reply) ==
    IF ~transport.ok THEN Raised(transport.error)
    ELSE IF ~reply.has_parts THEN Raised("TypeError")
    ELSE Returned(EditWalk(reply.parts, 1, NoImage, ""))

\* The configuration a message goes out with: send_message(parts, config=config)
\* puts the config of the turn in the place of the config the chat was created
\* with; send_message(parts) uses the config of the chat.
EffectiveConfig(chat_config, message) ==
    IF message.has_config THEN message.config ELSE chat_config

\* A history entry that always says an image was attached.
HistoryEntryWithImage(image, prompt) == [prompt |-> prompt.s, has_image |-> TRUE]

\* self.history.append({"prompt": prompt, "has_image": image is not None})
HistoryEntry(image, prompt) == [prompt |-> prompt.s, has_image |-> image # NoImage]

\* The history appended to before the message is sent.
EditHistoryEager(h, outcome, image, prompt) == Append(h, HistoryEntry(image, prompt))

\* The append is the last statement before the return: it is reached only
\* when neither the send nor the loop over the parts has raised.
EditHistory(h, outcome, image, prompt) ==
    IF outcome.kind = "return" THEN Append(h, HistoryEntry(image, prompt)) ELSE h

SessionImages == {NoImage, Img(1)}

\* RoomEditingSession.edit, with the replies the remote may give, the values of
\* the two optional arguments, and the number of turns the session is followed for.
edit(replies, aspect_ratios, resolutions, turns) ==
    /\ Idle
    /\ chat.created
    /\ Len(chat.sent) < turns
    /\ \E image \in SessionImages, prompt \in Prompts, aspect \in aspect_ratios,
          resolution \in resolutions, answer \in Answers(replies) :
        LET tr == answer[1]
            reply == answer[2]
            message == EditMessage(image, prompt, aspect, resolution)
            outcome == EditOutcome(tr, reply)
        IN /\ call' = ImageCall("edit", prompt, <<image>>, aspect, resolution, tr, reply)
           /\ requests' = <<message>>
           /\ chat' = [chat EXCEPT
                        !.sent = Append(@, message),
                        !.record = IF tr.ok
                                   THEN @ \o <<UserContent(message.parts), ModelContent(reply)>>
                                   ELSE @]
           /\ result' = outcome
           /\ history' = EditHistory(history, outcome, image, prompt)

\* get_history returning the local list of edits.
LocalHistory == history

\* self.chat.get_history(): the conversation the chat handle keeps.
ChatHistory == chat.record

\* RoomEditingSession.get_history
get_history ==
    /\ Idle
    /\ chat.created
    /\ call' = [fn |-> "get_history"]
    /\ requests' = <<>>
    /\ result' = Returned(ChatHistory)
    /\ UNCHANGED <<chat, history>>

\* The replies of the turns of a session followed over several turns.
SessionReplies ==
    {NoParts,
     Reply(<<TextPart(FALSE, "a"), InlinePart(FALSE, 1)>>),
     Reply(<<TextPart(TRUE, "t"), TextPart(FALSE, "b")>>)}

(***************************************************************************)
(* The JSON functions.                                                      *)
(***************************************************************************)
JsonCall(fn, image, min_confidence, transport, text) ==
    [fn |-> fn, image |-> image, min_confidence |-> min_confidence,
     transport |-> transport, text |-> text]

\* A transport failure answered with an empty default.
JsonOutcomeDefault(transport, decoded) == IF transport.ok THEN decoded ELSE Returned(<<>>)

\* A transport failure propagates to the caller; a reply goes through the try block.
JsonOutcome(transport, decoded) == IF transport.ok THEN decoded ELSE Raised(transport.error)

recognize_objects ==
    /\ Idle
    /\ \E tr \in Transport, text \in RecognizeTexts, min_confidence \in Thresholds :
        /\ call' = JsonCall("recognize_objects", Img(1), min_confidence, tr, text)
        /\ requests' = <<RecognizeRequest(Img(1))>>
        /\ result' = JsonOutcome(tr, RecognizeDecode(text, min_confidence))
    /\ UNCHANGED <<chat, history>>

analyze_room ==
    /\ Idle
    /\ \E tr \in Transport, text \in AnalyzeTexts :
        /\ call' = JsonCall("analyze_room", Img(1), 0, tr, text)
        /\ requests' = <<AnalyzeRequest(Img(1))>>
        /\ result' = JsonOutcome(tr, AnalyzeDecode(text))
    /\ UNCHANGED <<chat, history>>

generate_floor_plan ==
    /\ Idle
    /\ \E tr \in Transport, text \in FloorPlanTexts :
        /\ call' = JsonCall("generate_floor_plan", Img(1), 0, tr, text)
        /\ requests' = <<FloorPlanRequest(Img(1))>>
        /\ result' = JsonOutcome(tr, FloorPlanDecode(text))
    /\ UNCHANGED <<chat, history>>

get_product_recommendations ==
    /\ Idle
    /\ \E tr \in Transport, text \in ProductTexts :
        /\ call' = JsonCall("get_product_recommendations", NoImage, 0, tr, text)
        /\ requests' = <<ProductRequest>>
        /\ result' = JsonOutcome(tr, ProductDecode(text))
    /\ UNCHANGED <<chat, history>>

\* The caller takes the result of the invocation.
Done ==
    /\ ~Idle
    /\ call' = [fn |-> "none"]
    /\ requests' = <<>>
    /\ result' = NoResult
    /\ UNCHANGED <<chat, history>>

Init ==
    /\ call = [fn |-> "none"]
    /\ requests = <<>>
    /\ result = NoResult
    /\ chat = [created |-> FALSE]
    /\ history = <<>>

NextJson ==
    \/ recognize_objects
    \/ analyze_room
    \/ generate_floor_plan
    \/ get_product_recommendations
    \/ Done

SpecJson == Init /\ [][NextJson]_vars

\* The functions that return an image.
NextImage ==
    \/ generate_image
    \/ edit_image
    \/ generate_room_style
    \/ composite_with_references
    \/ generate_seamless_texture
    \/ generate_grounded_image
    \/ generate_4k_image
    \/ Done

SpecImage == Init /\ [][NextImage]_vars

\* Every function that keeps no state between calls and sends one request.
NextStateless ==
    \/ recognize_objects
    \/ analyze_room
    \/ generate_floor_plan
    \/ get_product_recommendations
    \/ generate_image
    \/ edit_image
    \/ generate_room_style
    \/ composite_with_references
    \/ generate_seamless_texture
    \/ generate_grounded_image
    \/ generate_4k_image
    \/ Done

SpecStateless == Init /\ [][NextStateless]_vars

\* A session over several turns.
NextSession ==
    \/ CreateSession
    \/ edit(SessionReplies, {None, "16:9"}, {None, "2K"}, MaxTurns)
    \/ get_history
    \/ Done

SpecSession == Init /\ [][NextSession]_vars

\* The first turn of a session, with every reply and every value of the optional arguments.
NextFirstEdit ==
    \/ CreateSession
    \/ edit(Replies, {None, "", "16:9"}, {None, "", "2K"}, 1)
    \/ Done

SpecFirstEdit == Init /\ [][NextFirstEdit]_vars

\* Every function of the module.  The stateless functions neither read nor write
\* the session, so their calls are explored while no session is open.
NoSession == ~chat.created

NextAll ==
    \/ NoSession /\ recognize_objects
    \/ NoSession /\ analyze_room
    \/ NoSession /\ generate_floor_plan
    \/ NoSession /\ get_product_recommendations
    \/ NoSession /\ generate_image
    \/ NoSession /\ edit_image
    \/ NoSession /\ generate_room_style
    \/ NoSession /\ generate_style_variations
    \/ NoSession /\ composite_with_references
    \/ NoSession /\ generate_seamless_texture
    \/ NoSession /\ generate_grounded_image
    \/ NoSession /\ generate_4k_image
    \/ CreateSession
    \/ edit(SessionReplies, {None, "", "16:9"}, {None, "", "2K"}, 1)
    \/ get_history
    \/ Done

SpecAll == Init /\ [][NextAll]_vars

\* The batch of style variations.
NextVariations ==
    \/ generate_style_variations
    \/ Done

SpecVariations == Init /\ [][NextVariations]_vars

(***************************************************************************)
(* Properties of the JSON functions.                                        *)
(***************************************************************************)
JsonFunctions ==
    {"recognize_objects", "analyze_room", "generate_floor_plan", "get_product_recommendations"}

\* The invocation is one of fn whose request was answered.
Answered(fn) == call.fn = fn /\ call.transport.ok

\* The invocation is one of fn answered with the text of a JSON array / object.
AnsweredArray(fn) == Answered(fn) /\ call.text.wellformed /\ call.text.kind = "array"
AnsweredObject(fn) == Answered(fn) /\ call.text.wellformed /\ call.text.kind = "object"

\* The confidence an entry counts with: its confidence field, 0 when it has none.
CountedConfidence(entry) == IF "confidence" \in DOMAIN entry THEN entry["confidence"] ELSE 0

\* The entries of the reply that reach the threshold, in the order of the reply.
EntriesAtLeast(t) == SelectSeq(call.text.items, LAMBDA entry : CountedConfidence(entry) >= t)

\* C1: for every threshold t and every reply that is a list of entries,
\* recognize_objects returns exactly the entries whose confidence is >= t (an
\* entry equal to t kept, an entry without confidence counted as 0), in the
\* order of the reply, and no returned object has a confidence below t.
C1_ThresholdFilter ==
    AnsweredArray("recognize_objects") =>
        LET kept == EntriesAtLeast(call.min_confidence) IN
        /\ result.kind = "return"
        /\ Len(result.value) = Len(kept)
        /\ \A i \in 1..Len(kept) :
            /\ result.value[i].confidence = CountedConfidence(kept[i])
            /\ result.value[i].label = Get(kept[i], "label", "unknown")
            /\ result.value[i].confidence >= call.min_confidence

\* A reply of two entries, one exactly at the threshold and kept, the other dropped.
C1_Witness ==
    /\ AnsweredArray("recognize_objects")
    /\ Len(call.text.items) = 2
    /\ "confidence" \in DOMAIN call.text.items[2]
    /\ call.text.items[2]["confidence"] = call.min_confidence
    /\ result.kind = "return"
    /\ Len(result.value) = 1
    /\ result.value[1].confidence = call.min_confidence

\* C3: in each of the four JSON functions a reply whose text is malformed JSON
\* yields the documented empty default and no exception reaches the caller.
C3_MalformedDefault ==
    \A fn \in JsonFunctions :
        (Answered(fn) /\ ~call.text.wellformed) =>
            /\ result.kind = "return"
            /\ fn \in {"recognize_objects", "get_product_recommendations"} =>
                    Len(result.value) = 0
            /\ fn = "analyze_room" =>
                    /\ result.value.room_type = "unknown"
                    /\ result.value.dimensions.estimated_width = 0
                    /\ result.value.dimensions.estimated_length = 0
                    /\ result.value.dimensions.estimated_height = 0
                    /\ Len(result.value.lighting_suggestions) = 0
                    /\ Len(result.value.style_recommendations) = 0
                    /\ Len(result.value.detected_features) = 0
            /\ fn = "generate_floor_plan" =>
                    /\ Len(result.value.walls) = 0
                    /\ Len(result.value.doors) = 0
                    /\ Len(result.value.windows) = 0
                    /\ DOMAIN result.value.dimensions = {"width", "length"}
                    /\ result.value.dimensions["width"] = 0
                    /\ result.value.dimensions["length"] = 0

\* analyze_room has returned on a malformed reply.
C3_Witness ==
    /\ Answered("analyze_room")
    /\ ~call.text.wellformed
    /\ result.kind = "return"
    /\ result.value.room_type = "unknown"

\* The value the key has in the dict, and whether the dict has it at all.
Has(d, k) == k \in DOMAIN d
Is(d, k, v) == Has(d, k) /\ d[k] = v

\* The bounding box of a reply entry: its bounding_box field, the empty dict without one.
EntryBox(entry) == IF Has(entry, "bounding_box") THEN entry["bounding_box"] ELSE EmptyDict

\* The fallbacks of the fields of a room analysis and of a floor plan's lists.
RoomFallbacks(value, obj) ==
    LET dims == IF Has(obj, "dimensions") THEN obj["dimensions"] ELSE EmptyDict IN
    /\ \A k \in {"estimated_width", "estimated_length", "estimated_height"} :
            ~Has(dims, k) => value.dimensions[k] = 0
    /\ \A k \in {"lighting_suggestions", "style_recommendations", "detected_features"} :
            ~Has(obj, k) => Len(value[k]) = 0

PlanListFallbacks(value, obj) ==
    \A k \in {"walls", "doors", "windows"} : ~Has(obj, k) => Len(value[k]) = 0

\* The fallbacks of an object's confidence and category.
ObjectFallbacks(object, entry) ==
    /\ ~Has(entry, "confidence") => object.confidence = 0
    /\ ~Has(entry, "category") => object.category = "other"

\* C6 as stated: every missing numeric field decodes to 0 (confidence, the four
\* bounding-box coordinates, the room dimensions, floor-plan width and length),
\* every missing list to the empty list, a missing category to 'other'.
C6_Original ==
    /\ AnsweredArray("recognize_objects") =>
        LET kept == EntriesAtLeast(call.min_confidence) IN
        /\ result.kind = "return"
        /\ Len(result.value) = Len(kept)
        /\ \A i \in 1..Len(kept) :
            /\ ObjectFallbacks(result.value[i], kept[i])
            /\ \A k \in {"min_x", "min_y", "max_x", "max_y"} :
                    ~Has(EntryBox(kept[i]), k) => result.value[i].bounding_box[k] = 0
    /\ AnsweredObject("analyze_room") =>
        result.kind = "return" /\ RoomFallbacks(result.value, call.text.obj)
    /\ AnsweredObject("generate_floor_plan") =>
        /\ result.kind = "return"
        /\ PlanListFallbacks(result.value, call.text.obj)
        /\ \A k \in {"width", "length"} :
            (~Has(call.text.obj, "dimensions") \/ ~Has(call.text.obj["dimensions"], k)) =>
                Is(result.value.dimensions, k, 0)

\* C6 amended: as C6, except that a missing max_x or max_y decodes to 1, and
\* that floor-plan width and length are 0 only when the reply has no dimensions
\* key: a dimensions object lacking them is returned as it is.
C6_Fallbacks ==
    /\ AnsweredArray("recognize_objects") =>
        LET kept == EntriesAtLeast(call.min_confidence) IN
        /\ result.kind = "return"
        /\ Len(result.value) = Len(kept)
        /\ \A i \in 1..Len(kept) :
            /\ ObjectFallbacks(result.value[i], kept[i])
            /\ \A k \in {"min_x", "min_y"} :
                    ~Has(EntryBox(kept[i]), k) => result.value[i].bounding_box[k] = 0
            /\ \A k \in {"max_x", "max_y"} :
                    ~Has(EntryBox(kept[i]), k) => result.value[i].bounding_box[k] = 10
    /\ AnsweredObject("analyze_room") =>
        result.kind = "return" /\ RoomFallbacks(result.value, call.text.obj)
    /\ AnsweredObject("generate_floor_plan") =>
        /\ result.kind = "return"
        /\ PlanListFallbacks(result.value, call.text.obj)
        /\ ~Has(call.text.obj, "dimensions") =>
                \A k \in {"width", "length"} : Is(result.value.dimensions, k, 0)
        /\ Has(call.text.obj, "dimensions") =>
                DOMAIN result.value.dimensions = DOMAIN call.text.obj["dimensions"]

\* An entry without a bounding box has been returned with the box (0, 0, 1, 1).
C6_Witness ==
    /\ AnsweredArray("recognize_objects")
    /\ Len(call.text.items) = 1
    /\ ~Has(call.text.items[1], "bounding_box")
    /\ result.kind = "return"
    /\ Len(result.value) = 1
    /\ result.value[1].bounding_box = [min_x |-> 0, min_y |-> 0, max_x |-> 10, max_y |-> 10]

\* C7: a well-formed floor-plan reply missing a key gets the default for that
\* key only (empty list; width 0 and length 0 for dimensions); every key that
\* is present is returned exactly as it is in the reply.
C7_FloorPlanFrame ==
    AnsweredObject("generate_floor_plan") =>
        /\ result.kind = "return"
        /\ \A k \in {"walls", "doors", "windows", "dimensions"} :
            Has(call.text.obj, k) => result.value[k] = call.text.obj[k]
        /\ \A k \in {"walls", "doors", "windows"} :
            ~Has(call.text.obj, k) => Len(result.value[k]) = 0
        /\ ~Has(call.text.obj, "dimensions") =>
            /\ DOMAIN result.value.dimensions = {"width", "length"}
            /\ result.value.dimensions["width"] = 0
            /\ result.value.dimensions["length"] = 0

\* A reply without doors has been decoded: no doors, the walls, windows and dimensions of the reply.
C7_Witness ==
    /\ AnsweredObject("generate_floor_plan")
    /\ DOMAIN call.text.obj = {"walls", "windows", "dimensions"}
    /\ result.kind = "return"
    /\ Len(result.value.doors) = 0
    /\ Len(result.value.walls) = 2
    /\ Len(result.value.windows) = 1
    /\ DOMAIN result.value.dimensions = {"width", "length"}
    /\ result.value.dimensions["width"] = 50

(***************************************************************************)
(* Properties of composite_with_references.                                 *)
(***************************************************************************)
Min(a, b) == IF a < b THEN a ELSE b

\* C2: for a reference list of length L the single request carries exactly
\* min(L, 14) images, the first 14 of the list in their order when L > 14 and
\* the whole list when L <= 14, after the prompt.
C2_TruncatedTo14 ==
    call.fn = "composite_with_references" =>
        LET n == Min(Len(call.images), 14) IN
        /\ Len(requests) = 1
        /\ Len(requests[1].contents) = n + 1
        /\ requests[1].contents[1] = call.prompt
        /\ \A i \in 1..n : requests[1].contents[i + 1] = call.images[i]

\* A list of 16 images has been sent as its first 14, which differ from its last 14.
C2_Witness ==
    /\ call.fn = "composite_with_references"
    /\ Len(call.images) = 16
    /\ Len(requests) = 1
    /\ Len(requests[1].contents) = 15
    /\ requests[1].contents[15] = call.images[14]
    /\ call.images[14] # call.images[16]

(***************************************************************************)
(* Properties of generate_style_variations.                                 *)
(***************************************************************************)
\* C4: for a requested count n <= 5, zero and negative counts included, at
\* most n requests are issued (none for a count below 1), and for every n at
\* most 5.
C4_AtMostN ==
    call.fn = "generate_style_variations" =>
        /\ Len(requests) <= 5
        /\ call.num_variations <= 5 =>
                Len(requests) <= (IF call.num_variations < 0 THEN 0 ELSE call.num_variations)

\* The request of a variation was answered with parts holding an image that is not a thought.
Succeeded(outcome) ==
    /\ outcome.transport.ok
    /\ outcome.reply.has_parts
    /\ \E k \in 1..Len(outcome.reply.parts) :
            outcome.reply.parts[k].kind = "inline_data" /\ ~outcome.reply.parts[k].thought

PresetIds == <<"warm", "cool", "natural", "luxurious", "bright">>

\* C5: a failure of the request or of the decoding of one variation is caught
\* and skipped: every selected preset is requested whatever failed before it,
\* every variation that succeeded is in the returned list, and the function
\* returns normally whatever subset of the requests fails.
C5_FailureIsolated ==
    call.fn = "generate_style_variations" =>
        /\ result.kind = "return"
        /\ Len(requests) = Len(call.outcomes)
        /\ \A i \in 1..Len(call.outcomes) :
            Succeeded(call.outcomes[i]) =>
                \E j \in 1..Len(result.value) : result.value[j].id = PresetIds[i]

\* Of four presets the second failed in the request and the third in the decoding;
\* the first and the fourth are returned and all four were requested.
C5_Witness ==
    /\ call.fn = "generate_style_variations"
    /\ Len(call.outcomes) = 4
    /\ Succeeded(call.outcomes[1])
    /\ ~call.outcomes[2].transport.ok
    /\ call.outcomes[3].transport.ok /\ ~call.outcomes[3].reply.has_parts
    /\ Succeeded(call.outcomes[4])
    /\ Len(requests) = 4
    /\ result.kind = "return"
    /\ Len(result.value) = 2
    /\ result.value[1].id = "warm"
    /\ result.value[2].id = "luxurious"

(***************************************************************************)
(* Properties of RoomEditingSession.edit.                                   *)
(***************************************************************************)
\* C8: each call of edit sends exactly one message on the chat handle, with
\* the parts [image, prompt] when an image is given and [prompt] alone when it
\* is not; nothing sent earlier is sent again.
C8_OneMessagePerEdit ==
    [][(call.fn = "none" /\ call'.fn = "edit") =>
            /\ Len(requests') = 1
            /\ requests'[1].parts =
                    IF call'.images[1].t = "image" THEN <<call'.images[1], call'.prompt>>
                    ELSE <<call'.prompt>>
            /\ Len(chat'.sent) = Len(chat.sent) + 1
            /\ chat'.sent[Len(chat'.sent)] = requests'[1]
            /\ \A i \in 1..Len(chat.sent) : chat'.sent[i] = chat.sent[i]]_vars

\* A second turn without an image, after a first turn with one: the second message is the prompt alone.
C8_Witness ==
    /\ call.fn = "edit"
    /\ call.images[1].t = "none"
    /\ Len(chat.sent) = 2
    /\ Len(chat.sent[1].parts) = 2
    /\ chat.sent[1].parts[1].t = "image"
    /\ Len(requests) = 1
    /\ requests[1].parts = <<call.prompt>>

\* The texts of the parts, joined in order.
RECURSIVE Joined(_)
Joined(parts) == IF Len(parts) = 0 THEN "" ELSE Head(parts).text \o Joined(Tail(parts))

\* The parts of the reply that are not thoughts and carry text / inline data.
AnswerTexts(reply) == SelectSeq(reply.parts, LAMBDA part : ~part.thought /\ part.kind = "text")
AnswerImages(reply) ==
    SelectSeq(reply.parts, LAMBDA part : ~part.thought /\ part.kind = "inline_data")

\* C9: thought parts give nothing to the result of edit: the returned text is
\* the texts of the parts that are not thoughts, joined in the order of the
\* reply, and the returned image is that of a part that is not a thought, or
\* none when the reply has no such part.
C9_ThoughtsDiscarded ==
    (call.fn = "edit" /\ call.transport.ok /\ call.reply.has_parts) =>
        /\ result.kind = "return"
        /\ result.value[2] = Joined(AnswerTexts(call.reply))
        /\ IF Len(AnswerImages(call.reply)) = 0
           THEN result.value[1].t = "none"
           ELSE \E k \in 1..Len(AnswerImages(call.reply)) :
                    result.value[1] = AnswerImages(call.reply)[k].image

\* A reply of a thought image and the texts "b" and "a": the text is "ba" and there is no image.
C9_Witness ==
    /\ call.fn = "edit"
    /\ call.transport.ok
    /\ call.reply.has_parts
    /\ Len(call.reply.parts) = 3
    /\ call.reply.parts[1].thought /\ call.reply.parts[1].kind = "inline_data"
    /\ result.kind = "return"
    /\ result.value[2] = "ba"
    /\ result.value[1].t = "none"

\* C10: when the send of a turn fails, the failure reaches the caller as it
\* was raised, the turn made exactly one send attempt, and the call returns no
\* (image, text) result.
C10_SendFailurePropagates ==
    (call.fn = "edit" /\ ~call.transport.ok) =>
        /\ result.kind = "raise"
        /\ result.error = call.transport.error
        /\ Len(requests) = 1

\* The second turn of a session failed in the send: one attempt, the failure raised.
C10_Witness ==
    /\ call.fn = "edit"
    /\ ~call.transport.ok
    /\ call.transport.error = "AuthError"
    /\ Len(chat.sent) = 2
    /\ Len(requests) = 1
    /\ result.kind = "raise"
    /\ result.error = "AuthError"

(***************************************************************************)
(* Properties of the session as a whole.                                    *)
(***************************************************************************)
\* C11: in a session created with enable_search, search grounding is in effect
\* on every edit turn whatever aspect_ratio and resolution the turn carries;
\* in a session created without it, no turn asks for search grounding.
C11_SearchOnEveryTurn ==
    chat.created =>
        \A i \in 1..Len(chat.sent) :
            EffectiveConfig(chat.config, chat.sent[i]).tools = chat.config.tools

\* The step is a call of fn.
Calls(fn) == call.fn = "none" /\ call'.fn = fn

\* C12: get_history returns the conversation kept by the chat handle, not the
\* local history list, sends no message, and leaves the local history and the
\* chat handle as they are.
C12_GetHistoryPassThrough ==
    [][Calls("get_history") =>
            /\ result'.kind = "return"
            /\ result'.value = chat.record
            /\ Len(requests') = 0
            /\ chat' = chat
            /\ history' = history]_vars

\* get_history after a turn answered without parts: the turn is in what is returned
\* and not in the local history.
C12_Witness ==
    /\ call.fn = "get_history"
    /\ result.kind = "return"
    /\ Len(result.value) = 2
    /\ result.value[1].role = "user"
    /\ Len(history) = 0

\* C13: creating a session opens a chat handle on the Pro image model, sends
\* no message and leaves the local history empty; messages are sent by edit
\* calls only, the first by the first edit.
C13_CreationSendsNothing ==
    [][/\ (~chat.created /\ chat'.created) =>
            /\ chat'.model = "gemini-3-pro-image-preview"
            /\ Len(chat'.sent) = 0
            /\ Len(chat'.record) = 0
            /\ Len(history') = 0
            /\ requests' = requests
       /\ (chat.created /\ chat'.sent # chat.sent) =>
            /\ Calls("edit")
            /\ Len(chat'.sent) = Len(chat.sent) + 1]_vars

\* A session that was created and has not been edited yet.
C13_Witness ==
    /\ chat.created
    /\ chat.model = "gemini-3-pro-image-preview"
    /\ Len(chat.sent) = 0
    /\ Len(history) = 0
    /\ call.fn = "none"

\* The turns the remote service was sent and answered, as the chat handle keeps them.
TurnsSent == SelectSeq(chat.record, LAMBDA c : c.role = "user")

\* The entry of the local history matches the contents of the turn.
EntryOf(entry, content) ==
    /\ entry.prompt = content.parts[Len(content.parts)].s
    /\ entry.has_image = (Len(content.parts) = 2)

\* C18 as stated: the local history holds exactly one entry per turn sent to
\* the remote service, in the order sent, with the prompt of the turn and
\* whether an image was attached.
C18_Original ==
    chat.created =>
        /\ Len(history) = Len(TurnsSent)
        /\ \A i \in 1..Len(history) : EntryOf(history[i], TurnsSent[i])

\* The turns whose edit call returned: those answered with a reply that has parts.
RECURSIVE TurnsReturned(_)
TurnsReturned(record) ==
    IF Len(record) < 2 THEN <<>>
    ELSE (IF record[2].valid THEN <<record[1]>> ELSE <<>>)
            \o TurnsReturned(SubSeq(record, 3, Len(record)))

\* C18 amended: the local history is an append-only log of the edit calls
\* that returned: one entry per such call, in their order, with the prompt of
\* the call and whether an image was attached; a turn that was sent but whose
\* edit call raised has no entry; no entry is removed, reordered or changed.
C18_LogOfReturnedEdits ==
    /\ [](chat.created =>
            /\ Len(history) = Len(TurnsReturned(chat.record))
            /\ \A i \in 1..Len(history) : EntryOf(history[i], TurnsReturned(chat.record)[i]))
    /\ [][/\ Len(history') >= Len(history)
          /\ \A i \in 1..Len(history) : history'[i] = history[i]]_vars

\* Two edits returned, the first with an image and the second without: two entries in that order.
C18_Witness ==
    /\ call.fn = "edit"
    /\ Len(history) = 2
    /\ history[1].prompt = "q" /\ history[1].has_image
    /\ history[2].prompt = "p" /\ ~history[2].has_image

\* C20: an edit call that fails, in the send or in the decoding of the reply,
\* leaves the local history as it was; the history grows by one entry when
\* edit returns, so its length is the number of edit calls that returned.
C20_FailedEditKeepsHistory ==
    /\ [][Calls("edit") =>
            IF result'.kind = "return"
            THEN Len(history') = Len(history) + 1
            ELSE result'.kind = "raise" /\ history' = history]_vars
    /\ [](chat.created =>
            Len(history) = Cardinality({i \in 1..Len(chat.record) :
                                chat.record[i].role = "model" /\ chat.record[i].valid}))

\* After an edit that returned, a second edit was answered without parts and raised:
\* two messages were sent and the history has one entry.
C20_Witness ==
    /\ call.fn = "edit"
    /\ call.transport.ok
    /\ ~call.reply.has_parts
    /\ result.kind = "raise"
    /\ Len(chat.sent) = 2
    /\ Len(history) = 1

(***************************************************************************)
(* Properties of the functions that return one image.                       *)
(***************************************************************************)
ImageFunctions ==
    {"generate_image", "edit_image", "generate_room_style", "composite_with_references",
     "generate_grounded_image", "generate_4k_image"}

\* The functions whose loop over the reply tests the thought flag.
SkipsThoughts(fn) == fn \notin {"generate_image", "edit_image"}

\* The invocation is one of an image function whose request was answered with parts.
AnsweredWithParts == call.fn \in ImageFunctions /\ call.transport.ok /\ call.reply.has_parts

Texts(parts) == SelectSeq(parts, LAMBDA part : part.kind = "text")
Inlines(parts) == SelectSeq(parts, LAMBDA part : part.kind = "inline_data")
NotThoughts(parts) == SelectSeq(parts, LAMBDA part : ~part.thought)

\* C14 as stated: for a reply with several text parts and several inline-image
\* parts the returned description is the first text segment and the returned
\* image the first inline segment, in each of the six functions.
C14_Original ==
    AnsweredWithParts =>
        LET kept == NotThoughts(call.reply.parts) IN
        (Len(Texts(kept)) >= 2 /\ Len(Inlines(kept)) >= 2) =>
            /\ result.kind = "return"
            /\ result.value[2] = Texts(kept)[1].text
            /\ result.value[1] = Inlines(kept)[1].image

\* The parts the loop of fn looks at.
Kept(fn, parts) == IF SkipsThoughts(fn) THEN NotThoughts(parts) ELSE parts

\* C14 amended: the returned description is the last text segment and the
\* returned image the last inline segment among the parts the loop of the
\* function does not skip (the empty string and no image when there is none);
\* generate_image and edit_image skip no part, the other four skip thoughts.
C14_LastSegments ==
    AnsweredWithParts =>
        LET kept == Kept(call.fn, call.reply.parts)
            texts == Texts(kept)
            inlines == Inlines(kept)
        IN /\ result.kind = "return"
           /\ result.value[2] = (IF Len(texts) = 0 THEN "" ELSE texts[Len(texts)].text)
           /\ result.value[1] = (IF Len(inlines) = 0 THEN NoImage
                                 ELSE inlines[Len(inlines)].image)

\* A reply of two texts and two images, all different: the second of each is returned.
C14_Witness ==
    /\ call.fn = "generate_4k_image"
    /\ call.transport.ok
    /\ call.reply.has_parts
    /\ call.reply.parts = <<TextPart(FALSE, "a"), InlinePart(FALSE, 1),
                            TextPart(FALSE, "b"), InlinePart(FALSE, 2)>>
    /\ result.kind = "return"
    /\ result.value = <<Img(2), "b">>

\* C15: in every stateless function that returns an image, generate_image and
\* edit_image included, the text of a thought part is never the returned
\* description and its inline data never the returned image.
C15_ThoughtsSkipped ==
    (call.fn \in ImageFunctions \cup {"generate_seamless_texture"}
        /\ call.transport.ok /\ call.reply.has_parts) =>
        /\ result.kind = "return"
        /\ \A i \in 1..Len(call.reply.parts) :
            LET part == call.reply.parts[i]
                image == IF call.fn = "generate_seamless_texture"
                         THEN result.value ELSE result.value[1]
                description == IF call.fn = "generate_seamless_texture"
                               THEN "" ELSE result.value[2]
            IN part.thought =>
                /\ part.kind = "text" => description # part.text
                /\ part.kind = "inline_data" => image # part.image

\* C19: generate_seamless_texture sends its request to the Pro image model
\* with the resolution as output size exactly when the resolution is "2K" or
\* "4K", and to the basic image model with no output size for every other
\* value; it returns the image of the first inline part that is not a thought,
\* and none when the reply has no such part.
C19_TextureTier ==
    call.fn = "generate_seamless_texture" =>
        /\ Len(requests) = 1
        /\ IF call.resolution \in {"2K", "4K"}
           THEN /\ requests[1].model = "gemini-3-pro-image-preview"
                /\ requests[1].config.image_size = call.resolution
           ELSE /\ requests[1].model = "gemini-2.5-flash-image"
                /\ requests[1].config.image_size = None
        /\ (call.transport.ok /\ call.reply.has_parts) =>
            LET inlines == Inlines(NotThoughts(call.reply.parts)) IN
            /\ result.kind = "return"
            /\ result.value = (IF Len(inlines) = 0 THEN NoImage ELSE inlines[1].image)

\* A "1K" texture went to the basic model without a size, and of a thought image
\* followed by two images the first of the two is returned.
C19_Witness ==
    /\ call.fn = "generate_seamless_texture"
    /\ call.resolution = "1K"
    /\ requests[1].model = "gemini-2.5-flash-image"
    /\ requests[1].config.image_size = None
    /\ call.transport.ok
    /\ call.reply.has_parts
    /\ call.reply.parts = <<InlinePart(TRUE, 3), InlinePart(FALSE, 1), InlinePart(FALSE, 2)>>
    /\ result.value = Img(1)

(***************************************************************************)
(* Properties of every function that keeps no state.                        *)
(***************************************************************************)
OneRequestFunctions == JsonFunctions \cup ImageFunctions \cup {"generate_seamless_texture"}

\* C16: every stateless function other than generate_style_variations hands
\* exactly one request to the remote service per invocation, whether the
\* request fails, is answered, or is answered with a reply that cannot be
\* decoded.
C16_OneRequest ==
    call.fn \in OneRequestFunctions => Len(requests) = 1

\* A "4K" texture whose request failed: one request was made.
C16_Witness ==
    /\ call.fn = "generate_seamless_texture"
    /\ call.resolution = "4K"
    /\ ~call.transport.ok
    /\ Len(requests) = 1
    /\ requests[1].model = "gemini-3-pro-image-preview"

\* C17: in every stateless function other than generate_style_variations a
\* failure of the remote call propagates to the caller: the function raises
\* what the transport raised and returns nothing, no default either.
C17_FailurePropagates ==
    (call.fn \in OneRequestFunctions /\ ~call.transport.ok) =>
        /\ result.kind = "raise"
        /\ result.error = call.transport.error

\* analyze_room whose request failed on authentication raised that failure.
C17_Witness ==
    /\ call.fn = "analyze_room"
    /\ ~call.transport.ok
    /\ call.transport.error = "AuthError"
    /\ result.kind = "raise"
    /\ result.error = "AuthError"

(***************************************************************************)
(* Properties of the list generate_style_variations returns.                *)
(***************************************************************************)
\* The place of a preset in the fixed order warm, cool, natural, luxurious, bright.
PresetPlace(id) == CHOOSE i \in 1..Len(PresetIds) : PresetIds[i] = id

\* C22: every list returned by generate_style_variations holds only
\* variations that carry an image generated for their preset (a reply without
\* an image part adds nothing), at most one variation per preset, in the
\* order warm, cool, natural, luxurious, bright, and is no longer than the
\* number of requests issued.
C22_VariationList ==
    call.fn = "generate_style_variations" =>
        /\ result.kind = "return"
        /\ Len(result.value) <= Len(requests)
        /\ \A j \in 1..Len(result.value) :
            LET variation == result.value[j] IN
            /\ \E i \in 1..Len(PresetIds) : PresetIds[i] = variation.id
            /\ PresetPlace(variation.id) <= Len(call.outcomes)
            /\ Succeeded(call.outcomes[PresetPlace(variation.id)])
            /\ variation.image.t = "image"
            /\ \E k \in 1..Len(call.outcomes[PresetPlace(variation.id)].reply.parts) :
                LET part == call.outcomes[PresetPlace(variation.id)].reply.parts[k] IN
                part.kind = "inline_data" /\ ~part.thought /\ part.image = variation.image
        /\ \A j, k \in 1..Len(result.value) :
            j < k => PresetPlace(result.value[j].id) < PresetPlace(result.value[k].id)

\* Five presets were requested and the third was answered with text alone: the
\* list holds the other four in the order of the presets.
C22_Witness ==
    /\ call.fn = "generate_style_variations"
    /\ Len(requests) = 5
    /\ call.outcomes[3].transport.ok
    /\ call.outcomes[3].reply = Reply(<<TextPart(FALSE, "a")>>)
    /\ result.kind = "return"
    /\ Len(result.value) = 4
    /\ result.value[1].id = "warm"
    /\ result.value[2].id = "cool"
    /\ result.value[3].id = "luxurious"
    /\ result.value[4].id = "bright"

(***************************************************************************)
(* Properties of the configuration of an edit turn.                         *)
(***************************************************************************)
\* An optional argument was supplied: it is neither None nor the empty string.
Supplied(v) == v # "None" /\ v # ""

\* C23: edit sends its message with a per-turn configuration exactly when at
\* least one of aspect_ratio and resolution is supplied; the configuration
\* carries the supplied ones of the two and leaves the other unset; when
\* neither is supplied the message is sent with no configuration.
C23_PerTurnConfig ==
    call.fn = "edit" =>
        /\ Len(requests) = 1
        /\ requests[1].has_config = (Supplied(call.aspect_ratio) \/ Supplied(call.resolution))
        /\ requests[1].config.aspect_ratio =
                (IF Supplied(call.aspect_ratio) THEN call.aspect_ratio ELSE "None")
        /\ requests[1].config.image_size =
                (IF Supplied(call.resolution) THEN call.resolution ELSE "None")

\* An edit with an empty aspect_ratio and the resolution "2K": the message has a
\* configuration holding the size and no aspect ratio.
C23_Witness ==
    /\ call.fn = "edit"
    /\ call.aspect_ratio = ""
    /\ call.resolution = "2K"
    /\ Len(requests) = 1
    /\ requests[1].has_config
    /\ requests[1].config.image_size = "2K"
    /\ requests[1].config.aspect_ratio = "None"

(***************************************************************************)
(* Properties of the requests of every function.                            *)
(***************************************************************************)
\* The request carries an output resolution.
HasSize(config) == config.image_size # "None"

\* C21: in every function and for every argument, a request that carries an
\* output resolution (image_size) goes to the Pro image model;
\* generate_room_style sends the resolution when use_pro is set and sends none
\* otherwise, and generate_image and edit_image never send one.
C21_SizeOnlyToPro ==
    /\ call.fn \notin {"none", "edit", "get_history"} =>
            \A i \in 1..Len(requests) :
                HasSize(requests[i].config) =>
                    requests[i].model = "gemini-3-pro-image-preview"
    /\ call.fn = "edit" =>
            \A i \in 1..Len(requests) :
                HasSize(requests[i].config) => chat.model = "gemini-3-pro-image-preview"
    /\ call.fn = "generate_room_style" =>
            requests[1].config.image_size =
                (IF call.use_pro THEN call.resolution ELSE "None")
    /\ call.fn \in {"generate_image", "edit_image"} => ~HasSize(requests[1].config)

\* generate_room_style without use_pro and with the resolution "2K": the request
\* went to the basic image model and carries no resolution.
C21_Witness ==
    /\ call.fn = "generate_room_style"
    /\ ~call.use_pro
    /\ call.resolution = "2K"
    /\ Len(requests) = 1
    /\ requests[1].model = "gemini-2.5-flash-image"
    /\ requests[1].config.image_size = "None"

====
